---- MODULE Spec2Model ----
(***************************************************************************)
(* Greenlight coordination state machine of app/views.py.                  *)
(*                                                                         *)
(* Strings that the code inspects character by character (user names,      *)
(* cargo ids, store keys, the load indicator "incarcare") are tuples of    *)
(* one-character strings; the two non-ASCII placeholders are the tokens    *)
(* "EN" (U+2013) and "EM" (U+2014).  Python None is the empty tuple, an    *)
(* optional integer n is <<n>>, an ISO timestamp string is <<"iso", t>>.   *)
(* A dict is a function whose domain is the set of keys that are present.  *)
(* _GL_STORE is the sequence of its (key, dict) items in insertion order.  *)
(*                                                                         *)
(* Every request handler takes _GL_LOCK once per store call, so a handler  *)
(* that reads and then writes is two steps: Receive (parse, validate,      *)
(* derive the key, first locked call: _gl_get or the recovery scan) and    *)
(* Complete (the locked _gl_set and the response).  A handler with at most *)
(* one locked call (set_greenlight, a rejected request, a read that leads  *)
(* to no write) is the single step Receive.  Return hands the response to  *)
(* the caller.                                                             *)
(***************************************************************************)
EXTENDS Integers, Sequences, FiniteSets, TLC

VARIABLES GL_STORE, now, pc, req, ck, d, resp, nreq, hist

vars == <<GL_STORE, now, pc, req, ck, d, resp, nreq, hist>>

(* ----------------------------- bounds ---------------------------------- *)
NThreads == 2
MaxReqs == 3
MaxReqsSeq == 4
MaxReqsWide == 2
MaxTicks == 1
TickLen == 13

Threads == 1..NThreads

(* ----------------------------- strings --------------------------------- *)
None == <<>>
EmptyStr == <<>>
EmptyDict == <<>>

IsSpace(c) == c = " "

RECURSIVE lstrip(_)
lstrip(s) == IF s # <<>> /\ IsSpace(Head(s)) THEN lstrip(Tail(s)) ELSE s

RECURSIVE rstrip(_)
rstrip(s) ==
    IF s # <<>> /\ IsSpace(s[Len(s)]) THEN rstrip(SubSeq(s, 1, Len(s) - 1)) ELSE s

strip(s) == rstrip(lstrip(s))

upper_char(c) == IF c = "b" THEN "B" ELSE IF c = "m" THEN "M" ELSE c

upper(s) == [i \in 1..Len(s) |-> upper_char(s[i])]

startswith(s, p) == Len(s) >= Len(p) /\ SubSeq(s, 1, Len(p)) = p

IsDigit(c) == c \in {"0", "1", "2", "3", "4", "5", "6", "7", "8", "9"}

RECURSIVE _digits(_)
_digits(s) ==
    IF s # <<>> /\ IsDigit(s[Len(s)])
    THEN _digits(SubSeq(s, 1, Len(s) - 1)) \o <<s[Len(s)]>>
    ELSE <<>>

(* str.split("__", 1)[1]: what follows the first "__" of k *)
RECURSIVE split_after(_)
split_after(k) ==
    IF Len(k) < 2 THEN None
    ELSE IF k[1] = "_" /\ k[2] = "_" THEN <<SubSeq(k, 3, Len(k))>>
    ELSE split_after(Tail(k))

(* ------------------------------ store ---------------------------------- *)
_gl_key(user_name, cargo_key) == user_name \o <<"_", "_">> \o cargo_key

HasKey(store, k) == \E i \in 1..Len(store) : store[i][1] = k

Lookup(store, k) ==
    IF HasKey(store, k)
    THEN store[CHOOSE i \in 1..Len(store) : store[i][1] = k][2]
    ELSE EmptyDict

_gl_get(store, user_name, cargo_key) == Lookup(store, _gl_key(user_name, cargo_key))

dict_merge(cur, updates) ==
    [f \in (DOMAIN cur) \cup (DOMAIN updates) |->
        IF f \in DOMAIN updates THEN updates[f] ELSE cur[f]]

dict_put(store, k, v) ==
    IF HasKey(store, k)
    THEN [i \in 1..Len(store) |-> IF store[i][1] = k THEN <<k, v>> ELSE store[i]]
    ELSE Append(store, <<k, v>>)

_gl_set(store, user_name, cargo_key, updates, merge) ==
    LET k == _gl_key(user_name, cargo_key)
        cur == IF merge THEN Lookup(store, k) ELSE EmptyDict
    IN dict_put(store, k, dict_merge(cur, updates))

get(dict, f, default) == IF f \in DOMAIN dict THEN dict[f] ELSE default

truthy(dict, f) == f \in DOMAIN dict /\ dict[f] = TRUE

(* ------------------------- key derivation ------------------------------ *)
BMPrefix == <<"B", "M", "-">>

(* snapshot of the external inventory document Cargo/<user>: its "ids" list *)
_load_cargo_doc(user_name) ==
    IF user_name = <<"u">> THEN <<<<"B", "M", "-", "7">>>>
    ELSE IF user_name = <<"v">>
    THEN <<<<"Q">>, <<"B", "M", "-", "X", "-", "1", "2", "3", "4", "5">>,
           <<"B", "M", "-", "Y", "-", "1", "2", "3", "4", "5">>, <<"C", "-", "9">>>>
    ELSE <<>>

_resolve_bm_for_cargo(user_name, cargo_id_digits) ==
    IF user_name = EmptyStr \/ cargo_id_digits = EmptyStr THEN EmptyStr
    ELSE LET ids == _load_cargo_doc(user_name)
             hits == {i \in 1..Len(ids) : _digits(ids[i]) # <<>>
                                          /\ _digits(ids[i]) = cargo_id_digits}
         IN IF hits = {} THEN EmptyStr
            ELSE ids[CHOOSE i \in hits : \A j \in hits : i <= j]

(* the choice that ignores the alias *)
_pick_cargo_key_raw(cargo_id, bm_id) == strip(cargo_id)

_pick_cargo_key(cargo_id, bm_id) ==
    LET cid == strip(cargo_id)
        bid == strip(bm_id)
    IN IF bid # EmptyStr THEN bid ELSE cid

(* returns <<cargo_key, bm_id>> *)
_standard_cargo_key(user_name, cargo_id, bm_id_in) ==
    LET cid == strip(cargo_id)
    IN IF startswith(upper(cid), BMPrefix) THEN <<cid, cid>>
       ELSE LET suf == _digits(cid)
                bm == IF strip(bm_id_in) # EmptyStr THEN strip(bm_id_in)
                      ELSE _resolve_bm_for_cargo(user_name, suf)
            IN <<_pick_cargo_key(cid, bm), bm>>

(* --------------------------- timestamps -------------------------------- *)
isoformat(t) == <<"iso", t>>

(* datetime.fromisoformat: <<t>>, or None for ValueError / a non-string *)
fromisoformat(ps) ==
    IF Len(ps) = 2 /\ ps[1] = "iso" THEN <<ps[2]>> ELSE None

(* ------------------------- recovery scanner ---------------------------- *)
MaxAgeSec == 12

ScanTime(dd) == fromisoformat(get(dd, "pending_since", None))

(* the freshness test with the boundary excluded *)
ScanQualifiesStrict(dd, user_name, max_age_sec, require_ready, t_now) ==
    /\ get(dd, "user", EmptyStr) = user_name
    /\ truthy(dd, "armed")
    /\ ~truthy(dd, "pressed_once")
    /\ (require_ready => truthy(dd, "ready_for_auto_finalize"))
    /\ ScanTime(dd) # None
    /\ t_now - ScanTime(dd)[1] < max_age_sec

ScanQualifies(dd, user_name, max_age_sec, require_ready, t_now) ==
    /\ get(dd, "user", EmptyStr) = user_name
    /\ truthy(dd, "armed")
    /\ ~truthy(dd, "pressed_once")
    /\ (require_ready => truthy(dd, "ready_for_auto_finalize"))
    /\ ScanTime(dd) # None
    /\ t_now - ScanTime(dd)[1] <= max_age_sec

(* the scan that keeps the last seen of the records sharing the latest time *)
_gl_find_recent_pending_last_seen(store, user_name, max_age_sec, require_ready, t_now) ==
    LET ok == {i \in 1..Len(store) :
                  ScanQualifies(store[i][2], user_name, max_age_sec, require_ready, t_now)}
    IN IF ok = {} THEN <<None, None>>
       ELSE LET best == CHOOSE i \in ok :
                            \A j \in ok :
                                \/ ScanTime(store[j][2])[1] < ScanTime(store[i][2])[1]
                                \/ (ScanTime(store[j][2])[1] = ScanTime(store[i][2])[1] /\ i >= j)
                part == split_after(store[best][1])
            IN IF part = None THEN <<None, None>> ELSE <<part[1], store[best][2]>>

(* returns <<cargo_key, doc>> or <<None, None>> *)
_gl_find_recent_pending_for_user(store, user_name, max_age_sec, require_ready, t_now) ==
    LET ok == {i \in 1..Len(store) :
                  ScanQualifies(store[i][2], user_name, max_age_sec, require_ready, t_now)}
    IN IF ok = {} THEN <<None, None>>
       ELSE LET best == CHOOSE i \in ok :
                            \A j \in ok :
                                \/ ScanTime(store[j][2])[1] < ScanTime(store[i][2])[1]
                                \/ (ScanTime(store[j][2])[1] = ScanTime(store[i][2])[1] /\ i <= j)
                part == split_after(store[best][1])
            IN IF part = None THEN <<None, None>> ELSE <<part[1], store[best][2]>>

(* the auto-finalize that leaves the ready flag standing *)
FinalizeSuccessKeepsReady(t_now) ==
    [pressed_once |-> TRUE,
     armed |-> FALSE,
     press_incarcare_final |-> EmptyStr,
     press_success |-> TRUE,
     press_message |-> "Publish Successful!",
     pending_since |-> None,
     last_after_click |-> isoformat(t_now)]

FinalizeSuccessUpdates(t_now) ==
    [pressed_once |-> TRUE,
     armed |-> FALSE,
     press_incarcare_final |-> EmptyStr,
     press_success |-> TRUE,
     press_message |-> "Publish Successful!",
     pending_since |-> None,
     last_after_click |-> isoformat(t_now),
     ready_for_auto_finalize |-> FALSE]

FinalizeUser(user_name, gl_doc) ==
    IF get(gl_doc, "user", user_name) # EmptyStr THEN get(gl_doc, "user", user_name)
    ELSE user_name

_gl_finalize_success(store, user_name, cargo_key, gl_doc, t_now) ==
    _gl_set(store, FinalizeUser(user_name, gl_doc), cargo_key,
            FinalizeSuccessUpdates(t_now), TRUE)

(* ---------------------------- requests --------------------------------- *)
(* A request: the endpoint, the HTTP method, whether the body parses as     *)
(* JSON, and the body's fields as sent.  page, page_state and when are      *)
(* sent already stripped and in lower case.                                 *)
Req0 ==
    [ep |-> "page_ping", method |-> "POST", body_ok |-> TRUE, page |-> "addload",
     user_name |-> <<"u">>, cargo_id |-> EmptyStr, bm_id |-> EmptyStr,
     page_state |-> "", when |-> "", incarcare |-> EmptyStr, timp_de |-> None,
     press |-> TRUE]

NoReq == [ep |-> "none"]

R_user(r) == strip(r.user_name)
R_cargo(r) == strip(r.cargo_id)

(* the normalisation that knows only the ASCII hyphen *)
norm_incarcare_ascii(s) ==
    IF strip(s) \in {EmptyStr, <<"-">>} THEN EmptyStr ELSE strip(s)

norm_incarcare(s) ==
    IF strip(s) \in {EmptyStr, <<"-">>, <<"EN">>, <<"EM">>} THEN EmptyStr ELSE strip(s)

R_incarcare(r) == norm_incarcare(strip(r.incarcare))

FinalizePhases == {"after_click", "post_flow"}

(* the dispatch in which page_ping takes every page for the target page *)
PathAnyPage(r) ==
    IF r.method # "POST" THEN "405"
    ELSE IF ~r.body_ok THEN "400"
    ELSE IF r.ep = "page_ping" THEN
        IF R_cargo(r) = EmptyStr THEN
            IF R_user(r) # EmptyStr /\ r.page_state = "empty" THEN "pp_scan"
            ELSE "pp_echo"
        ELSE "pp_arrival"
    ELSE IF r.ep = "greenlight_check" THEN
        IF R_user(r) = EmptyStr \/ R_cargo(r) = EmptyStr THEN "400" ELSE "check"
    ELSE IF r.ep = "press_ack" THEN
        IF R_user(r) = EmptyStr \/ R_cargo(r) = EmptyStr THEN "ack_fallback" ELSE "ack"
    ELSE IF R_user(r) = EmptyStr \/ R_cargo(r) = EmptyStr THEN "400" ELSE "set"

(* which branch of its handler a request takes *)
Path(r) ==
    IF r.method # "POST" THEN "405"
    ELSE IF ~r.body_ok THEN "400"
    ELSE IF r.ep = "page_ping" THEN
        IF r.page # "addload" THEN "pp_other"
        ELSE IF R_cargo(r) = EmptyStr THEN
            IF R_user(r) # EmptyStr /\ r.page_state = "empty" THEN "pp_scan"
            ELSE "pp_echo"
        ELSE "pp_arrival"
    ELSE IF r.ep = "greenlight_check" THEN
        IF R_user(r) = EmptyStr \/ R_cargo(r) = EmptyStr THEN "400" ELSE "check"
    ELSE IF r.ep = "press_ack" THEN
        IF R_user(r) = EmptyStr \/ R_cargo(r) = EmptyStr THEN "ack_fallback" ELSE "ack"
    ELSE IF R_user(r) = EmptyStr \/ R_cargo(r) = EmptyStr THEN "400" ELSE "set"

StorePaths == {"pp_scan", "pp_arrival", "check", "ack", "set"}

R_key(r) == _standard_cargo_key(R_user(r), R_cargo(r), r.bm_id)

(* the fallback verdict computed from the load indicator as sent *)
ImmediateResponseRaw(r) ==
    CASE Path(r) = "405" -> [status |-> 405]
      [] Path(r) = "400" -> [status |-> 400]
      [] Path(r) = "pp_other" -> [status |-> 200, ok |-> TRUE, go |-> FALSE]
      [] Path(r) = "pp_echo" -> [status |-> 200, ok |-> TRUE, go |-> FALSE]
      [] Path(r) = "ack_fallback" ->
            LET success == r.when \in FinalizePhases /\ strip(r.incarcare) = EmptyStr
            IN [status |-> 200, ok |-> TRUE, success |-> <<success>>,
                message |-> IF success THEN "Publish Successful!"
                            ELSE IF r.when \in FinalizePhases THEN "Publish Failed!"
                            ELSE "Recorded."]

(* the response of a branch that never touches the store *)
ImmediateResponse(r) ==
    CASE Path(r) = "405" -> [status |-> 405]
      [] Path(r) = "400" -> [status |-> 400]
      [] Path(r) = "pp_other" -> [status |-> 200, ok |-> TRUE, go |-> FALSE]
      [] Path(r) = "pp_echo" -> [status |-> 200, ok |-> TRUE, go |-> FALSE]
      [] Path(r) = "ack_fallback" ->
            LET success == r.when \in FinalizePhases /\ R_incarcare(r) = EmptyStr
            IN [status |-> 200, ok |-> TRUE, success |-> <<success>>,
                message |-> IF success THEN "Publish Successful!"
                            ELSE IF r.when \in FinalizePhases THEN "Publish Failed!"
                            ELSE "Recorded."]

(* ------------------------------ page_ping ------------------------------ *)
(* the arrival that arms again a key that is already armed *)
PagePingArmsWhenArmed(dd) == ~truthy(dd, "pressed_once")

PagePingArms(dd) == ~truthy(dd, "pressed_once") /\ ~truthy(dd, "armed")

PagePingArmUpdates(r) ==
    [user |-> R_user(r), cargo_id |-> R_cargo(r), bm_id |-> R_key(r)[2],
     cargo_key |-> R_key(r)[1], armed |-> TRUE, pressed_once |-> FALSE]

PagePingWrite(store, r, dd) ==
    IF PagePingArms(dd)
    THEN _gl_set(store, R_user(r), R_key(r)[1], PagePingArmUpdates(r), FALSE)
    ELSE store

(* the arrival that always answers go=true *)
PagePingResponseGo(r, dd) ==
    [status |-> 200, ok |-> TRUE, go |-> TRUE, cargo_key |-> R_key(r)[1]]

PagePingResponse(r, dd) ==
    [status |-> 200, ok |-> TRUE,
     go |-> IF PagePingArms(dd) THEN TRUE
            ELSE truthy(dd, "armed") /\ ~truthy(dd, "pressed_once"),
     cargo_key |-> R_key(r)[1]]

ScanHit(cargo_key, gl_doc) == cargo_key # EmptyStr /\ gl_doc # EmptyDict

AutoFinalizeWrite(store, r, cargo_key, gl_doc, t_now) ==
    IF ScanHit(cargo_key, gl_doc)
    THEN _gl_finalize_success(store, R_user(r), cargo_key, gl_doc, t_now)
    ELSE store

(* --------------------------- greenlight_check -------------------------- *)
CheckGo(dd) == truthy(dd, "armed") /\ ~truthy(dd, "pressed_once")

(* the consumption that forgets to disarm *)
CheckUpdatesKeepsArmed == [pressed_once |-> TRUE]

CheckUpdates == [armed |-> FALSE, pressed_once |-> TRUE]

CheckWrite(store, r, dd) ==
    IF CheckGo(dd) THEN _gl_set(store, R_user(r), R_key(r)[1], CheckUpdates, TRUE)
    ELSE store

CheckResponse(r, dd) ==
    [status |-> 200, ok |-> TRUE, go |-> CheckGo(dd), cargo_key |-> R_key(r)[1]]

(* ---------------------------- set_greenlight --------------------------- *)
SetUpdates(r) ==
    [armed |-> r.press, pressed_once |-> ~r.press, user |-> R_user(r),
     cargo_id |-> R_cargo(r), bm_id |-> R_key(r)[2], cargo_key |-> R_key(r)[1]]

(* the override that replaces the record *)
SetWriteReplace(store, r) == _gl_set(store, R_user(r), R_key(r)[1], SetUpdates(r), FALSE)

SetWrite(store, r) == _gl_set(store, R_user(r), R_key(r)[1], SetUpdates(r), TRUE)

SetResponse(r) ==
    [status |-> 200, ok |-> TRUE, armed |-> r.press, cargo_key |-> R_key(r)[1]]

(* ------------------------------ press_ack ------------------------------ *)
AckBm(r, dd) ==
    IF get(dd, "bm_id", EmptyStr) # EmptyStr THEN strip(dd["bm_id"])
    ELSE strip(R_key(r)[2])

InList(x, l) == \E i \in 1..Len(l) : l[i] = x

(* the phase list that records every report, seen before or not *)
AckPhasesEvery(r, dd) ==
    LET press_phases == get(dd, "press_phases", <<>>)
    IN IF r.when # "" THEN Append(press_phases, r.when) ELSE press_phases

AckPhases(r, dd) ==
    LET press_phases == get(dd, "press_phases", <<>>)
    IN IF r.when # "" /\ ~InList(r.when, press_phases) THEN Append(press_phases, r.when)
       ELSE press_phases

AckIncarBefore(r, dd) ==
    LET incar_before == strip(get(dd, "press_incarcare_before", EmptyStr))
    IN IF incar_before = EmptyStr THEN R_incarcare(r) ELSE incar_before

(* timpde_before after "if timp_de is not None: timpde_before = int(timp_de)" *)
AckTimpdeBefore(r, dd) ==
    IF r.timp_de # None THEN r.timp_de ELSE get(dd, "press_timpde_before", None)

(* the final value without the fallback to the stored "before" value *)
AckTimpdeFinalReported(r, dd) == r.timp_de

AckTimpdeFinal(r, dd) ==
    IF r.timp_de # None THEN r.timp_de
    ELSE IF get(dd, "press_timpde_final", None) = None
            /\ get(dd, "press_timpde_before", None) # None
         THEN dd["press_timpde_before"]
         ELSE get(dd, "press_timpde_final", None)

AckIdentity(r, dd) ==
    [user |-> R_user(r), cargo_id |-> R_cargo(r), bm_id |-> AckBm(r, dd),
     cargo_key |-> R_key(r)[1]]

PreparedUpdates(r, dd) ==
    dict_merge(AckIdentity(r, dd),
        [armed |-> TRUE, pressed_once |-> FALSE,
         last_timp_de |-> AckTimpdeBefore(r, dd),
         press_phases |-> AckPhases(r, dd)])

BeforeClickUpdates(r, dd, t_now) ==
    dict_merge(AckIdentity(r, dd),
        [armed |-> TRUE, pressed_once |-> FALSE,
         pending_since |-> isoformat(t_now),
         last_timp_de |-> AckTimpdeBefore(r, dd),
         last_incarcare |-> AckIncarBefore(r, dd),
         press_phases |-> AckPhases(r, dd),
         press_incarcare_before |-> AckIncarBefore(r, dd),
         press_timpde_before |-> AckTimpdeBefore(r, dd),
         ready_for_auto_finalize |-> TRUE,
         ready_since |-> isoformat(t_now)])

AckSuccess(r) == R_incarcare(r) = EmptyStr

AckMessage(r) == IF AckSuccess(r) THEN "Publish Successful!" ELSE "Publish Failed!"

FinalizeUpdates(r, dd, t_now) ==
    dict_merge(AckIdentity(r, dd),
        [armed |-> FALSE, pressed_once |-> TRUE,
         press_phases |-> AckPhases(r, dd),
         press_incarcare_final |-> R_incarcare(r),
         press_success |-> AckSuccess(r),
         press_message |-> AckMessage(r),
         press_timpde_before |-> get(dd, "press_timpde_before", None),
         press_timpde_final |-> AckTimpdeFinal(r, dd),
         pending_since |-> None,
         ready_for_auto_finalize |-> FALSE,
         last_after_click |-> isoformat(t_now)])

GenericUpdates(r, dd) ==
    dict_merge(
        dict_merge(AckIdentity(r, dd), [press_phases |-> AckPhases(r, dd)]),
        IF r.timp_de # None THEN [press_timpde_before |-> r.timp_de] ELSE EmptyDict)

(* press_success is None: the finalize transition has not been recorded *)
AckFirstFinalize(r, dd) == r.when \in FinalizePhases /\ "press_success" \notin DOMAIN dd

(* the handler without its echo branch *)
AckEchoNever(r, dd) == FALSE

AckEcho(r, dd) == r.when \in FinalizePhases /\ "press_success" \in DOMAIN dd

AckUpdates(r, dd, t_now) ==
    IF r.when = "prepared" THEN PreparedUpdates(r, dd)
    ELSE IF r.when = "before_click" THEN BeforeClickUpdates(r, dd, t_now)
    ELSE IF r.when \in FinalizePhases THEN FinalizeUpdates(r, dd, t_now)
    ELSE GenericUpdates(r, dd)

AckWrite(store, r, dd, t_now) ==
    IF AckEcho(r, dd) THEN store
    ELSE _gl_set(store, R_user(r), R_key(r)[1], AckUpdates(r, dd, t_now), TRUE)

AckEchoMessage(dd) ==
    IF get(dd, "press_message", "") # "" THEN dd["press_message"]
    ELSE IF dd["press_success"] THEN "Publish Successful!" ELSE "Publish Failed!"

AckResponse(r, dd) ==
    LET body == [status |-> 200, ok |-> TRUE, cargo_id |-> R_cargo(r),
                 user_name |-> R_user(r)]
    IN IF r.when = "prepared"
       THEN dict_merge(body, [success |-> None, message |-> "Recorded."])
       ELSE IF r.when = "before_click"
       THEN dict_merge(body, [success |-> None,
                              message |-> "Recorded. Checking publish result..."])
       ELSE IF AckFirstFinalize(r, dd)
       THEN dict_merge(body, [success |-> <<AckSuccess(r)>>, message |-> AckMessage(r)])
       ELSE IF AckEcho(r, dd)
       THEN dict_merge(body, [success |-> <<dd["press_success"]>>,
                              message |-> AckEchoMessage(dd)])
       ELSE dict_merge(body, [success |-> None, message |-> "Recorded."])

(* ------------------------- handlers, in two steps ---------------------- *)
(* first locked call: what the handler reads, <<cargo_key, dict>> *)
HandlerRead(store, r, t_now) ==
    CASE Path(r) = "pp_scan" ->
            _gl_find_recent_pending_for_user(store, R_user(r), MaxAgeSec, TRUE, t_now)
      [] OTHER -> <<R_key(r)[1], _gl_get(store, R_user(r), R_key(r)[1])>>

(* second locked call: the store after the handler's _gl_set, if it makes one *)
HandlerWrite(store, r, cargo_key, dd, t_now) ==
    CASE Path(r) = "pp_scan" -> AutoFinalizeWrite(store, r, cargo_key, dd, t_now)
      [] Path(r) = "pp_arrival" -> PagePingWrite(store, r, dd)
      [] Path(r) = "check" -> CheckWrite(store, r, dd)
      [] Path(r) = "ack" -> AckWrite(store, r, dd, t_now)
      [] Path(r) = "set" -> SetWrite(store, r)

HandlerResponse(r, dd) ==
    CASE Path(r) = "pp_scan" -> [status |-> 200, ok |-> TRUE, go |-> FALSE]
      [] Path(r) = "pp_arrival" -> PagePingResponse(r, dd)
      [] Path(r) = "check" -> CheckResponse(r, dd)
      [] Path(r) = "ack" -> AckResponse(r, dd)
      [] Path(r) = "set" -> SetResponse(r)

(* whether the handler calls _gl_set after what it has read *)
WritesAfterRead(r, cargo_key, dd) ==
    CASE Path(r) = "pp_scan" -> ScanHit(cargo_key, dd)
      [] Path(r) = "pp_arrival" -> PagePingArms(dd)
      [] Path(r) = "check" -> CheckGo(dd)
      [] Path(r) = "ack" -> ~AckEcho(r, dd)
      [] OTHER -> FALSE

(* the store key the handler's _gl_set addresses *)
HandlerStoreKey(r, cargo_key, dd) ==
    IF Path(r) = "pp_scan" THEN _gl_key(FinalizeUser(R_user(r), dd), cargo_key)
    ELSE _gl_key(R_user(r), cargo_key)

(* ------------------------- observation history ------------------------- *)
(* Per store key, what an observer of the responses has seen: the number   *)
(* of go=true answers of greenlight_check since the record was last        *)
(* written armed (go_arm) and since its episode began (go_ep), and the     *)
(* verdict the first finalize-phase press_ack recorded.                    *)
Hist0 == [go_arm |-> 0, go_ep |-> 0, verdict |-> None]

HGet(h, k) == IF k \in DOMAIN h THEN h[k] ELSE Hist0

HPut(h, k, v) == [x \in (DOMAIN h) \cup {k} |-> IF x = k THEN v ELSE h[x]]

Min2(n) == IF n >= 2 THEN 2 ELSE n

HistAfter(h, r, cargo_key, dd) ==
    LET k == HandlerStoreKey(r, cargo_key, dd)
        e == HGet(h, k)
    IN CASE Path(r) = "check" /\ CheckGo(dd) ->
                HPut(h, k, [e EXCEPT !.go_arm = Min2(@ + 1), !.go_ep = Min2(@ + 1)])
         [] Path(r) = "pp_arrival" /\ PagePingArms(dd) ->
                HPut(h, k, [e EXCEPT !.go_arm = 0, !.go_ep = 0])
         [] Path(r) = "set" /\ r.press ->
                HPut(h, k, [e EXCEPT !.go_arm = 0, !.go_ep = 0])
         [] Path(r) = "ack" /\ r.when \in {"prepared", "before_click"} ->
                HPut(h, k, [e EXCEPT !.go_arm = 0])
         [] Path(r) = "ack" /\ AckFirstFinalize(r, dd) ->
                HPut(h, k, [e EXCEPT !.go_ep = 0,
                                     !.verdict = IF @ = None
                                                 THEN <<AckSuccess(r), AckMessage(r)>>
                                                 ELSE @])
         [] Path(r) = "pp_scan" /\ ScanHit(cargo_key, dd) ->
                HPut(h, k, [e EXCEPT !.go_ep = 0])
         [] OTHER -> h

(* ------------------------------ requests sent -------------------------- *)
U == <<"u">>
UU == <<"a", "_", "_", "b">>
Cargo7 == <<"7">>
BM7 == <<"B", "M", "-", "7">>
Loaded == <<"x">>

Ack(when, incarcare) ==
    [Req0 EXCEPT !.ep = "press_ack", !.cargo_id = Cargo7, !.when = when,
                 !.incarcare = incarcare]

(* the requests of the concurrent specification: one user, one target *)
Requests ==
    { [Req0 EXCEPT !.cargo_id = Cargo7],
      [Req0 EXCEPT !.page_state = "empty"],
      [Req0 EXCEPT !.ep = "greenlight_check", !.cargo_id = Cargo7],
      [Req0 EXCEPT !.ep = "set_greenlight", !.cargo_id = Cargo7],
      Ack("prepared", EmptyStr), Ack("before_click", Loaded),
      Ack("after_click", EmptyStr), Ack("after_click", Loaded) }

BM8 == <<"B", "M", "-", "8">>
Dash == <<"-">>
EnDash == <<"EN">>
EmDash == <<"EM">>
PaddedDash == <<" ", "-", " ">>

(* the requests of the sequential specification: the episode of one target  *)
(* (the raw id 7 and its alias BM-7 are one target) next to a second target *)
RequestsSeq ==
    { [Req0 EXCEPT !.cargo_id = Cargo7],
      [Req0 EXCEPT !.page_state = "empty"],
      [Req0 EXCEPT !.ep = "greenlight_check", !.cargo_id = BM7],
      [Req0 EXCEPT !.ep = "set_greenlight", !.cargo_id = Cargo7],
      [Req0 EXCEPT !.ep = "set_greenlight", !.cargo_id = Cargo7, !.press = FALSE],
      Ack("prepared", EmptyStr),
      Ack("before_click", Loaded),
      Ack("before_click", EmptyStr),
      [Ack("before_click", Loaded) EXCEPT !.cargo_id = BM8],
      Ack("after_click", EmptyStr),
      Ack("after_click", Loaded),
      Ack("clicked", EmptyStr) }

(* the requests of the wide specification: every endpoint with every kind   *)
(* of input it tells apart: both targets, every placeholder of the load     *)
(* indicator, the numeric parameter, and the requests that are rejected     *)
RequestsWide ==
    RequestsSeq \cup
    { [Req0 EXCEPT !.cargo_id = BM8],
      Req0,
      [Req0 EXCEPT !.page = "active"],
      [Req0 EXCEPT !.method = "GET"],
      [Req0 EXCEPT !.ep = "greenlight_check", !.cargo_id = BM8],
      [Req0 EXCEPT !.ep = "greenlight_check"],
      [Req0 EXCEPT !.ep = "set_greenlight", !.body_ok = FALSE],
      [Ack("prepared", EmptyStr) EXCEPT !.timp_de = <<3>>],
      [Ack("before_click", Loaded) EXCEPT !.timp_de = <<5>>],
      Ack("after_click", Dash),
      Ack("after_click", EnDash),
      Ack("after_click", EmDash),
      Ack("after_click", PaddedDash),
      Ack("post_flow", EmptyStr),
      [Ack("post_flow", Loaded) EXCEPT !.timp_de = <<3>>],
      [Ack("after_click", Loaded) EXCEPT !.cargo_id = BM8],
      [Ack("after_click", EmptyStr) EXCEPT !.user_name = EmptyStr] }

(* ------------------------------- actions ------------------------------- *)
NoResp == [status |-> 0]

Init ==
    /\ GL_STORE = <<>>
    /\ now = 0
    /\ pc = [t \in Threads |-> "idle"]
    /\ req = [t \in Threads |-> NoReq]
    /\ ck = [t \in Threads |-> EmptyStr]
    /\ d = [t \in Threads |-> EmptyDict]
    /\ resp = [t \in Threads |-> NoResp]
    /\ nreq = 0
    /\ hist = <<>>

(* Handing a computed response to the caller touches nothing shared, so it  *)
(* is taken as the step right after the response is computed.              *)
NoneDone == \A u \in Threads : pc[u] # "done"

Receive(t, r, budget) ==
    /\ NoneDone
    /\ pc[t] = "idle"
    /\ nreq < budget
    /\ nreq' = nreq + 1
    /\ req' = [req EXCEPT ![t] = r]
    /\ now' = now
    /\ IF Path(r) = "set"
       THEN /\ GL_STORE' = HandlerWrite(GL_STORE, r, R_key(r)[1], EmptyDict, now)
            /\ hist' = HistAfter(hist, r, R_key(r)[1], EmptyDict)
            /\ ck' = [ck EXCEPT ![t] = R_key(r)[1]]
            /\ d' = d
            /\ resp' = [resp EXCEPT ![t] = HandlerResponse(r, EmptyDict)]
            /\ pc' = [pc EXCEPT ![t] = "done"]
       ELSE IF Path(r) \in StorePaths
       THEN LET read == HandlerRead(GL_STORE, r, now)
            IN /\ ck' = [ck EXCEPT ![t] = read[1]]
               /\ d' = [d EXCEPT ![t] = read[2]]
               /\ IF WritesAfterRead(r, read[1], read[2])
                  THEN pc' = [pc EXCEPT ![t] = "got"] /\ resp' = resp
                  ELSE /\ pc' = [pc EXCEPT ![t] = "done"]
                       /\ resp' = [resp EXCEPT ![t] = HandlerResponse(r, read[2])]
               /\ UNCHANGED <<GL_STORE, hist>>
       ELSE /\ pc' = [pc EXCEPT ![t] = "done"]
            /\ resp' = [resp EXCEPT ![t] = ImmediateResponse(r)]
            /\ UNCHANGED <<GL_STORE, hist, ck, d>>

Complete(t) ==
    /\ NoneDone
    /\ pc[t] = "got"
    /\ GL_STORE' = HandlerWrite(GL_STORE, req[t], ck[t], d[t], now)
    /\ resp' = [resp EXCEPT ![t] = HandlerResponse(req[t], d[t])]
    /\ hist' = HistAfter(hist, req[t], ck[t], d[t])
    /\ pc' = [pc EXCEPT ![t] = "done"]
    /\ UNCHANGED <<now, req, ck, d, nreq>>

Return(t) ==
    /\ pc[t] = "done"
    /\ pc' = [pc EXCEPT ![t] = "idle"]
    /\ req' = [req EXCEPT ![t] = NoReq]
    /\ ck' = [ck EXCEPT ![t] = EmptyStr]
    /\ d' = [d EXCEPT ![t] = EmptyDict]
    /\ resp' = [resp EXCEPT ![t] = NoResp]
    /\ UNCHANGED <<GL_STORE, now, nreq, hist>>

Tick ==
    /\ NoneDone
    /\ now < MaxTicks * TickLen
    /\ now' = now + TickLen
    /\ UNCHANGED <<GL_STORE, pc, req, ck, d, resp, nreq, hist>>

(* Worker threads are interchangeable: a request goes to the first idle one. *)
ReceiveAny(t) ==
    /\ \A u \in Threads : u < t => pc[u] # "idle"
    /\ \E r \in Requests : Receive(t, r, MaxReqs)

Next ==
    \/ \E t \in Threads : ReceiveAny(t)
    \/ \E t \in Threads : Complete(t)
    \/ \E t \in Threads : Return(t)
    \/ Tick

Spec == Init /\ [][Next]_vars

(* One request at a time: a handler runs to its response before the next   *)
(* request is received (a single worker, thread 1).                        *)
ReceiveSeq == \E r \in RequestsSeq : Receive(1, r, MaxReqsSeq)

NextSeq ==
    \/ ReceiveSeq
    \/ Complete(1)
    \/ Return(1)
    \/ Tick

SpecSeq == Init /\ [][NextSeq]_vars

(* One request at a time, drawn from the wide set of inputs. *)
ReceiveWide == \E r \in RequestsWide : Receive(1, r, MaxReqsWide)

NextWide ==
    \/ ReceiveWide
    \/ Complete(1)
    \/ Return(1)
    \/ Tick

SpecWide == Init /\ [][NextWide]_vars

(* ------------------- requests off the main path ------------------------ *)
(* The rejected and the context-free requests of every endpoint, a user    *)
(* whose name contains the key separator, and a few requests that fill the *)
(* store, one request at a time.                                           *)
Ping(page) == [Req0 EXCEPT !.page = page, !.cargo_id = Cargo7]

RequestsEdge ==
    { Ping("addload"),
      Ack("before_click", Loaded),
      [Req0 EXCEPT !.page_state = "empty"],
      [Ack("before_click", Loaded) EXCEPT !.user_name = UU],
      [Req0 EXCEPT !.page_state = "empty", !.user_name = UU],
      [Ping("addload") EXCEPT !.user_name = EmptyStr],
      [Ping("addload") EXCEPT !.user_name = <<" ">>, !.bm_id = BM8],
      [Req0 EXCEPT !.page_state = "empty", !.user_name = EmptyStr],
      [Req0 EXCEPT !.page_state = "empty", !.bm_id = BM7],
      Ping("active"), Ping("deleted"), Ping("unknown"),
      [Ack("after_click", EmptyStr) EXCEPT !.user_name = EmptyStr],
      [Ack("after_click", Loaded) EXCEPT !.cargo_id = EmptyStr],
      [Ack("after_click", Loaded) EXCEPT !.cargo_id = EmptyStr, !.bm_id = BM7],
      [Ack("post_flow", EnDash) EXCEPT !.user_name = EmptyStr],
      [Ack("post_flow", Loaded) EXCEPT !.user_name = EmptyStr, !.cargo_id = EmptyStr],
      [Ack("prepared", EmptyStr) EXCEPT !.user_name = EmptyStr],
      [Ack("before_click", Loaded) EXCEPT !.cargo_id = EmptyStr],
      [Ack("clicked", EmptyStr) EXCEPT !.user_name = EmptyStr],
      [Req0 EXCEPT !.ep = "greenlight_check", !.cargo_id = Cargo7, !.user_name = EmptyStr],
      [Req0 EXCEPT !.ep = "greenlight_check"],
      [Req0 EXCEPT !.ep = "set_greenlight", !.cargo_id = Cargo7, !.user_name = EmptyStr],
      [Req0 EXCEPT !.ep = "set_greenlight"] }
    \cup { [Ping("addload") EXCEPT !.ep = e, !.method = "GET"] :
              e \in {"page_ping", "greenlight_check", "press_ack", "set_greenlight"} }
    \cup { [Ping("addload") EXCEPT !.ep = e, !.body_ok = FALSE] :
              e \in {"page_ping", "greenlight_check", "press_ack", "set_greenlight"} }

ReceiveEdge == \E r \in RequestsEdge : Receive(1, r, MaxReqsWide)

NextEdge ==
    \/ ReceiveEdge
    \/ Complete(1)
    \/ Return(1)
    \/ Tick

SpecEdge == Init /\ [][NextEdge]_vars

(* --------------------- a key armed a second time ----------------------- *)
(* Episodes that are finalized by an explicit report and armed again by    *)
(* set_greenlight only: no prepared and no before_click report is sent, so *)
(* a record that is armed and carries a verdict was armed by set_greenlight *)
(* after its finalize.                                                     *)
RequestsRearm ==
    { [Req0 EXCEPT !.cargo_id = Cargo7],
      [Req0 EXCEPT !.ep = "greenlight_check", !.cargo_id = BM7],
      [Req0 EXCEPT !.ep = "set_greenlight", !.cargo_id = Cargo7],
      [Req0 EXCEPT !.ep = "set_greenlight", !.cargo_id = Cargo7, !.press = FALSE],
      Ack("after_click", EmptyStr),
      Ack("after_click", Loaded),
      Ack("post_flow", Loaded) }

ReceiveRearm == \E r \in RequestsRearm : Receive(1, r, MaxReqs)

NextRearm ==
    \/ ReceiveRearm
    \/ Complete(1)
    \/ Return(1)
    \/ Tick

SpecRearm == Init /\ [][NextRearm]_vars

(* ------------------- the phase protocol of one key --------------------- *)
(* One request at a time for (u, 7): reports of every phase, with and      *)
(* without the numeric parameter and with different load indicators, the   *)
(* arrival ping and the ping that triggers the recovery scan.              *)
AckT(when, incarcare, n) == [Ack(when, incarcare) EXCEPT !.timp_de = <<n>>]

RequestsPhases ==
    { [Req0 EXCEPT !.cargo_id = Cargo7],
      [Req0 EXCEPT !.page_state = "empty"],
      AckT("prepared", EmptyStr, 3),
      AckT("before_click", Loaded, 5),
      AckT("before_click", <<"y">>, 3),
      Ack("before_click", EmptyStr),
      Ack("after_click", EmptyStr),
      AckT("after_click", Loaded, 7),
      Ack("post_flow", Loaded),
      Ack("clicked", EmptyStr),
      AckT("clicked", EmptyStr, 3),
      Ack("hover", Loaded),
      Ack("", EmptyStr) }

ReceivePhases == \E r \in RequestsPhases : Receive(1, r, MaxReqs)

NextPhases ==
    \/ ReceivePhases
    \/ Complete(1)
    \/ Return(1)
    \/ Tick

SpecPhases == Init /\ [][NextPhases]_vars

(* ---------------------- one episode, end to end ------------------------ *)
(* The reports of one episode of the target BM-1-42, one request at a time. *)
BM142 == <<"B", "M", "-", "1", "-", "4", "2">>
LoadedWord == <<"l", "o", "a", "d", "e", "d">>

EpArrive == [Req0 EXCEPT !.cargo_id = BM142]
EpBefore == [Ack("before_click", LoadedWord) EXCEPT !.cargo_id = BM142]
EpAfter == [Ack("after_click", EmptyStr) EXCEPT !.cargo_id = BM142]

RequestsEpisode ==
    { EpArrive, EpBefore, EpAfter,
      [Ack("after_click", LoadedWord) EXCEPT !.cargo_id = BM142],
      [Req0 EXCEPT !.ep = "greenlight_check", !.cargo_id = BM142] }

ReceiveEpisode == \E r \in RequestsEpisode : Receive(1, r, MaxReqsSeq)

NextEpisode ==
    \/ ReceiveEpisode
    \/ Complete(1)
    \/ Return(1)
    \/ Tick

SpecEpisode == Init /\ [][NextEpisode]_vars

(* -------------------- key derivation on its own ------------------------ *)
(* _standard_cargo_key applied to the raw ids, aliases and users below; the *)
(* raw id arrives stripped, as every handler passes it.                     *)
V == <<"v">>
W == <<"w">>

KeyRawIds ==
    { EmptyStr, Cargo7, BM7, <<"1", "2", "3", "4", "5">>, <<"B", "M", "-", "Y", "-", "9", "9", "9">>, <<"b", "m", "-", "7">>,
      <<"a", "b", "c">>, <<"x", "7">>, <<"B", "m", "-">>, <<"9">> }

KeyAliases == {EmptyStr, BM8, <<" ">>, <<" ", "B", "M", "-", "X", "-", "1", " ">>}

KeyReq(user_name, cargo_id, bm_id_in) ==
    [ep |-> "key", user_name |-> user_name, cargo_id |-> cargo_id, bm_id |-> bm_id_in]

(* one call of _standard_cargo_key; the pair it returns is kept in ck and resp *)
KeyCall ==
    /\ pc[1] = "idle"
    /\ \E user_name \in {U, V, W, EmptyStr}, cargo_id \in KeyRawIds, bm_id_in \in KeyAliases :
          LET out == _standard_cargo_key(user_name, cargo_id, bm_id_in)
          IN /\ req' = [req EXCEPT ![1] = KeyReq(user_name, cargo_id, bm_id_in)]
             /\ ck' = [ck EXCEPT ![1] = out[1]]
             /\ resp' = [resp EXCEPT ![1] = [status |-> 0, bm_id |-> out[2]]]
    /\ pc' = [pc EXCEPT ![1] = "done"]
    /\ UNCHANGED <<GL_STORE, now, d, nreq, hist>>

NextKey ==
    \/ KeyCall
    \/ Return(1)

SpecKey == Init /\ [][NextKey]_vars

(* ------------------- the recovery scan on its own ---------------------- *)
(* The scan is a function of the store, the clock and its three arguments. *)
(* It is applied to every store of up to two records drawn from the        *)
(* records below: each flag combination the filters tell apart, with a     *)
(* pending_since that is missing, unparseable, or 11, 12 or 13 s old.      *)
ScanNow == MaxAgeSec + TickLen

ScanAges == {MaxAgeSec - 1, MaxAgeSec, MaxAgeSec + 1}

BadStamp == <<"b", "a", "d">>

ScanStamps == {None, BadStamp} \cup {isoformat(ScanNow - a) : a \in ScanAges}

ScanOwners == {<<U, BM7>>, <<U, BM8>>, <<UU, BM7>>}

ScanFlags ==
    { [armed |-> TRUE, pressed_once |-> FALSE, ready_for_auto_finalize |-> TRUE],
      [armed |-> TRUE, pressed_once |-> FALSE, ready_for_auto_finalize |-> FALSE],
      [armed |-> FALSE, pressed_once |-> FALSE, ready_for_auto_finalize |-> TRUE],
      [armed |-> TRUE, pressed_once |-> TRUE, ready_for_auto_finalize |-> TRUE] }

ScanRecord(o, fl, ps) ==
    <<_gl_key(o[1], o[2]),
      dict_merge(fl, [user |-> o[1], cargo_key |-> o[2], pending_since |-> ps])>>

ScanRecords == {ScanRecord(o, fl, ps) : o \in ScanOwners, fl \in ScanFlags, ps \in ScanStamps}

ScanStores ==
    {<<>>} \cup {<<a>> : a \in ScanRecords}
           \cup {p \in ScanRecords \X ScanRecords : p[1][1] # p[2][1]}

ScanReq(user_name, max_age_sec, require_ready) ==
    [ep |-> "scan", user_name |-> user_name, max_age_sec |-> max_age_sec,
     require_ready |-> require_ready]

InitScan ==
    /\ GL_STORE \in ScanStores
    /\ now = ScanNow
    /\ pc = [t \in Threads |-> "idle"]
    /\ req = [t \in Threads |-> NoReq]
    /\ ck = [t \in Threads |-> EmptyStr]
    /\ d = [t \in Threads |-> EmptyDict]
    /\ resp = [t \in Threads |-> NoResp]
    /\ nreq = 0
    /\ hist = <<>>

(* one call of the scan; its result is kept in ck and d *)
ScanCall ==
    /\ pc[1] = "idle"
    /\ \E user_name \in {U, UU}, max_age_sec \in {MaxAgeSec - 1, MaxAgeSec},
          require_ready \in BOOLEAN :
          LET out == _gl_find_recent_pending_for_user(GL_STORE, user_name, max_age_sec,
                                                      require_ready, now)
          IN /\ req' = [req EXCEPT ![1] = ScanReq(user_name, max_age_sec, require_ready)]
             /\ ck' = [ck EXCEPT ![1] = out[1]]
             /\ d' = [d EXCEPT ![1] = out[2]]
    /\ pc' = [pc EXCEPT ![1] = "done"]
    /\ UNCHANGED <<GL_STORE, now, resp, nreq, hist>>

NextScan ==
    \/ ScanCall
    \/ Return(1)

SpecScan == InitScan /\ [][NextScan]_vars

(* ------------------------------- claims -------------------------------- *)
Records == {GL_STORE[i][2] : i \in 1..Len(GL_STORE)}

Completes(t) == pc[t] = "got" /\ pc'[t] = "done"

(* the step in which handler t computes its response *)
Answers(t) == pc[t] # "done" /\ pc'[t] = "done"

AnswerKey(t) == HandlerStoreKey(req'[t], ck'[t], d'[t])

ThreadKey(t) == HandlerStoreKey(req[t], ck[t], d[t])

DoneWith(t, path) == pc[t] = "done" /\ Path(req[t]) = path

(* C1: concurrent greenlight_check calls against one armed, not yet pressed *)
(* record yield exactly one go=true: no record answers go=true twice for    *)
(* one arming, and after a go=true the record is pressed and not armed.     *)
C1_SinglePressConsumption ==
    \A k \in DOMAIN hist :
        /\ hist[k].go_arm <= 1
        /\ hist[k].go_arm = 1 =>
              (truthy(Lookup(GL_STORE, k), "pressed_once")
               /\ ~truthy(Lookup(GL_STORE, k), "armed"))

(* C2: of two concurrent finalize-phase press_ack reports on a record whose *)
(* press_success is unset, the second to complete writes nothing and        *)
(* returns the verdict and message the first one stored.                    *)
C2_FinalizeOnceConcurrent ==
    [][\A t \in Threads :
          (/\ Completes(t)
           /\ Path(req[t]) = "ack"
           /\ AckFirstFinalize(req[t], d[t])
           /\ HGet(hist, ThreadKey(t)).verdict # None)
          => (/\ GL_STORE' = GL_STORE
              /\ resp'[t].success = <<HGet(hist, ThreadKey(t)).verdict[1]>>
              /\ resp'[t].message = HGet(hist, ThreadKey(t)).verdict[2])]_vars

(* C3: no record is armed and pressed_once at the same time. *)
C3_NeverArmedAndPressed ==
    \A rec \in Records : ~(truthy(rec, "armed") /\ truthy(rec, "pressed_once"))

(* a pressed record while a handler still holds a snapshot of it as armed *)
C3_Witness ==
    \E t \in Threads :
        /\ pc[t] = "got"
        /\ Path(req[t]) \in {"check", "ack"}
        /\ truthy(d[t], "armed")
        /\ truthy(Lookup(GL_STORE, ThreadKey(t)), "pressed_once")

(* C4: pending_since is non-null exactly when ready_for_auto_finalize is    *)
(* true, in every record (a missing field is null / false).                 *)
C4_PendingIffReady ==
    \A rec \in Records :
        (get(rec, "pending_since", None) # None) <=> truthy(rec, "ready_for_auto_finalize")

(* a record in its ready window, and a record whose window was closed *)
C4_Witness ==
    \E rec \in Records :
        /\ get(rec, "pending_since", None) # None
        /\ truthy(rec, "ready_for_auto_finalize")
        /\ "press_success" \in DOMAIN rec

(* C5: sequentially, once a finalize-phase press_ack has recorded a verdict *)
(* for a key, every later finalize-phase press_ack for that key returns     *)
(* that success flag and message.                                           *)
C5_FinalizeEchoIdempotent ==
    \A t \in Threads :
        (/\ DoneWith(t, "ack")
         /\ req[t].when \in FinalizePhases
         /\ HGet(hist, ThreadKey(t)).verdict # None)
        => (/\ resp[t].success = <<HGet(hist, ThreadKey(t)).verdict[1]>>
            /\ resp[t].message = HGet(hist, ThreadKey(t)).verdict[2])

Placeholder(s) == strip(s) \in {EmptyStr, Dash, EnDash, EmDash}

(* C6: a finalize-phase press_ack on a key whose press_success is unset     *)
(* returns and stores success=true exactly when the reported load indicator *)
(* is empty or a placeholder, with the matching wording.                    *)
C6_SuccessRule ==
    \A t \in Threads :
        (DoneWith(t, "ack") /\ AckFirstFinalize(req[t], d[t]))
        => LET rec == Lookup(GL_STORE, ThreadKey(t))
               msg == IF Placeholder(req[t].incarcare) THEN "Publish Successful!"
                      ELSE "Publish Failed!"
           IN /\ resp[t].success = <<Placeholder(req[t].incarcare)>>
              /\ resp[t].message = msg
              /\ rec["press_success"] = Placeholder(req[t].incarcare)
              /\ rec["press_message"] = msg

(* the first finalize of a key reported the en dash and was a success *)
C6_Witness ==
    \E t \in Threads :
        /\ DoneWith(t, "ack")
        /\ AckFirstFinalize(req[t], d[t])
        /\ req[t].incarcare = EnDash
        /\ resp[t].success = <<TRUE>>

(* C7: a page_ping arrival arms a key that has no record or neither flag,   *)
(* and leaves the store unchanged when the key is already armed or pressed. *)
C7_IdempotentArm ==
    [][\A t \in Threads :
          (Answers(t) /\ Path(req'[t]) = "pp_arrival")
          => LET cur == Lookup(GL_STORE, AnswerKey(t))
                 new == Lookup(GL_STORE', AnswerKey(t))
             IN IF ~truthy(cur, "armed") /\ ~truthy(cur, "pressed_once")
                THEN truthy(new, "armed") /\ new["pressed_once"] = FALSE
                ELSE GL_STORE' = GL_STORE]_vars

(* an arrival was answered on a key that go=true had already pressed *)
C7_Witness ==
    \E t \in Threads :
        /\ DoneWith(t, "pp_arrival")
        /\ truthy(d[t], "pressed_once")
        /\ ~truthy(d[t], "armed")

(* C8: once a record has pressed_once=true, only set_greenlight with        *)
(* press=true makes it armed or clears pressed_once.                        *)
C8_PressedIsTerminal ==
    [][\A i \in 1..Len(GL_STORE) :
          LET k == GL_STORE[i][1]
              new == Lookup(GL_STORE', k)
          IN (/\ truthy(GL_STORE[i][2], "pressed_once")
              /\ (truthy(new, "armed") \/ ~truthy(new, "pressed_once")))
             => \E t \in Threads :
                    /\ Answers(t)
                    /\ Path(req'[t]) = "set"
                    /\ req'[t].press
                    /\ AnswerKey(t) = k]_vars

(* C9: within one episode of a key greenlight_check answers go=true at most *)
(* once, also with prepared and before_click reports between the checks.    *)
C9_OneTimeGo == \A k \in DOMAIN hist : hist[k].go_ep <= 1

(* C10: an auto-finalize stores the verdict an explicit after-action report *)
(* with the record's last known load indicator would have produced.         *)
C10_RecoveryVerdictFromRecord ==
    \A t \in Threads :
        (DoneWith(t, "pp_scan") /\ ScanHit(ck[t], d[t]))
        => Lookup(GL_STORE, ThreadKey(t))["press_success"]
             = Placeholder(get(d[t], "last_incarcare", EmptyStr))

ScanDone == pc[1] = "done" /\ req[1].ep = "scan"

(* what the scan requires of record i, stated on the stored fields *)
Pending(i, user_name, max_age_sec, require_ready) ==
    LET rec == GL_STORE[i][2]
    IN /\ "user" \in DOMAIN rec /\ rec["user"] = user_name
       /\ "armed" \in DOMAIN rec /\ rec["armed"] = TRUE
       /\ ("pressed_once" \in DOMAIN rec => rec["pressed_once"] = FALSE)
       /\ (require_ready =>
             ("ready_for_auto_finalize" \in DOMAIN rec /\ rec["ready_for_auto_finalize"] = TRUE))
       /\ "pending_since" \in DOMAIN rec
       /\ \E t \in 0..now : /\ rec["pending_since"] = <<"iso", t>>
                            /\ now - t <= max_age_sec

PendingAt(i) == GL_STORE[i][2]["pending_since"][2]

(* C11: the recovery scan returns a record only if that stored record is    *)
(* the user's, armed, not pressed, ready when required, and carries a       *)
(* parseable pending_since at most max_age seconds old (12 s included,      *)
(* 13 s excluded); records with a missing or unparseable pending_since are  *)
(* skipped, and (None, None) is returned exactly when no record qualifies.  *)
C11_ScanSoundness ==
    ScanDone =>
        LET r == req[1]
            ok == {i \in 1..Len(GL_STORE) :
                      Pending(i, r.user_name, r.max_age_sec, r.require_ready)}
        IN /\ d[1] # EmptyDict => (ck[1] # None /\ \E i \in ok : GL_STORE[i][2] = d[1])
           /\ ok = {} <=> (ck[1] = None /\ d[1] = EmptyDict)

(* a record exactly 12 s old was returned from a store that also holds an   *)
(* unparseable pending_since                                                *)
C11_Witness ==
    /\ ScanDone
    /\ req[1].max_age_sec = MaxAgeSec
    /\ d[1] # EmptyDict
    /\ d[1]["pending_since"] = isoformat(now - MaxAgeSec)
    /\ \E i \in 1..Len(GL_STORE) : GL_STORE[i][2]["pending_since"] = BadStamp

(* C12: of the records that qualify the scan returns the one with the       *)
(* latest pending_since, and of several sharing it the first in store order.*)
C12_ScanSelection ==
    ScanDone =>
        LET r == req[1]
            ok == {i \in 1..Len(GL_STORE) :
                      Pending(i, r.user_name, r.max_age_sec, r.require_ready)}
        IN ok # {} =>
             \E i \in ok :
                 /\ GL_STORE[i][2] = d[1]
                 /\ \A j \in ok : \/ PendingAt(j) < PendingAt(i)
                                  \/ (PendingAt(j) = PendingAt(i) /\ i <= j)

(* two records qualified at the same pending_since; the first was returned *)
C12_Witness ==
    /\ ScanDone
    /\ Len(GL_STORE) = 2
    /\ Pending(1, req[1].user_name, req[1].max_age_sec, req[1].require_ready)
    /\ Pending(2, req[1].user_name, req[1].max_age_sec, req[1].require_ready)
    /\ PendingAt(1) = PendingAt(2)
    /\ d[1] = GL_STORE[1][2]

(* a record in its ready window: armed, not pressed, ready, with a timestamp *)
Candidate(i, user_name) == Pending(i, user_name, now, TRUE)

LatestCandidate(i, user_name) ==
    /\ Candidate(i, user_name)
    /\ \A j \in 1..Len(GL_STORE) :
          (j # i /\ Candidate(j, user_name)) => PendingAt(j) < PendingAt(i)

Finalized(rec) ==
    /\ "press_success" \in DOMAIN rec /\ rec["press_success"] = TRUE
    /\ "pressed_once" \in DOMAIN rec /\ rec["pressed_once"] = TRUE
    /\ "armed" \in DOMAIN rec /\ rec["armed"] = FALSE
    /\ get(rec, "pending_since", None) = None
    /\ get(rec, "ready_for_auto_finalize", FALSE) = FALSE

(* C13: a page_ping for addload with no target and page_state=empty, from   *)
(* the user of the record last put in its ready window by before_click,     *)
(* finalizes that record as a success when it is at most 12 s old, and      *)
(* leaves the store unchanged when it is older.                             *)
C13_AutoFinalizeRecovers ==
    [][\A t \in Threads :
          /\ (pc[t] = "idle" /\ pc'[t] # "idle" /\ Path(req'[t]) = "pp_scan")
             => \A i \in 1..Len(GL_STORE) :
                   LatestCandidate(i, R_user(req'[t]))
                   => IF now - PendingAt(i) <= MaxAgeSec
                      THEN pc'[t] = "got" /\ AnswerKey(t) = GL_STORE[i][1]
                      ELSE pc'[t] = "done" /\ GL_STORE' = GL_STORE
          /\ (Completes(t) /\ Path(req[t]) = "pp_scan")
             => Finalized(Lookup(GL_STORE', ThreadKey(t)))]_vars

KeyDone == pc[1] = "done" /\ req[1].ep = "key"

HasCanonicalPrefix(s) ==
    Len(s) >= 3 /\ s[1] \in {"B", "b"} /\ s[2] \in {"M", "m"} /\ s[3] = "-"

(* the longest run of decimal digits that ends s *)
DigitSuffix(s) ==
    LET runs == {n \in 0..Len(s) : \A i \in (Len(s) - n + 1)..Len(s) : IsDigit(s[i])}
        n == CHOOSE n \in runs : \A m \in runs : m <= n
    IN SubSeq(s, Len(s) - n + 1, Len(s))

Trimmed(s) ==
    LET keep == {i \in 1..Len(s) : s[i] # " "}
    IN IF keep = {} THEN <<>>
       ELSE SubSeq(s, CHOOSE i \in keep : \A j \in keep : i <= j,
                      CHOOSE i \in keep : \A j \in keep : j <= i)

(* C14: the key is the raw id when it carries the prefix BM- (in any case), *)
(* else the supplied alias when there is one, else the user's first         *)
(* inventory entry with the raw id's trailing digits, else the raw id; the  *)
(* store is not written.                                                    *)
C14_KeyDerivation ==
    KeyDone =>
        LET raw == req[1].cargo_id
            alias == Trimmed(req[1].bm_id)
            ids == _load_cargo_doc(req[1].user_name)
            hits == {i \in 1..Len(ids) : /\ DigitSuffix(ids[i]) # <<>>
                                         /\ DigitSuffix(ids[i]) = DigitSuffix(raw)}
        IN /\ GL_STORE = <<>>
           /\ ck[1] = IF HasCanonicalPrefix(raw) THEN raw
                      ELSE IF alias # EmptyStr THEN alias
                      ELSE IF req[1].user_name # EmptyStr /\ hits # {}
                           THEN ids[CHOOSE i \in hits : \A j \in hits : i <= j]
                      ELSE raw

(* raw id 12345 without alias resolved to the first matching inventory entry *)
C14_Witness ==
    /\ KeyDone
    /\ req[1].user_name = V
    /\ req[1].cargo_id = <<"1", "2", "3", "4", "5">>
    /\ req[1].bm_id = EmptyStr
    /\ ck[1] = <<"B", "M", "-", "X", "-", "1", "2", "3", "4", "5">>

(* k is user + "__" + target for a non-empty user and a non-empty target *)
ResolvedKey(k) ==
    \E p \in 2..(Len(k) - 2) : k[p] = "_" /\ k[p + 1] = "_"

(* C15: every stored record belongs to a non-empty user and a non-empty     *)
(* target, whatever requests were processed.                                *)
C15_NoRecordForUnresolvableKey ==
    \A i \in 1..Len(GL_STORE) :
        /\ ResolvedKey(GL_STORE[i][1])
        /\ get(GL_STORE[i][2], "user", U) # EmptyStr
        /\ get(GL_STORE[i][2], "cargo_key", BM7) # EmptyStr

WellFormed(r) == r.method = "POST" /\ r.body_ok

NoContext(r) == Trimmed(r.user_name) = EmptyStr \/ Trimmed(r.cargo_id) = EmptyStr

(* C16: a press_ack without user or without target leaves the store as it   *)
(* is and answers with success exactly for a finalize phase with an empty   *)
(* or placeholder load indicator, and with the success, failure or recorded *)
(* wording.                                                                 *)
C16_StatelessFallback ==
    [][\A t \in Threads :
          (/\ Answers(t)
           /\ req'[t].ep = "press_ack"
           /\ WellFormed(req'[t])
           /\ NoContext(req'[t]))
          => LET r == req'[t]
                 fin == r.when \in {"after_click", "post_flow"}
                 win == fin /\ Placeholder(r.incarcare)
             IN /\ GL_STORE' = GL_STORE
                /\ resp'[t].status = 200
                /\ resp'[t].success = <<win>>
                /\ resp'[t].message = IF win THEN "Publish Successful!"
                                      ELSE IF fin THEN "Publish Failed!"
                                      ELSE "Recorded."]_vars

(* a post_flow report without user, with the en dash, was answered as a     *)
(* success while the store held a record                                    *)
C16_Witness ==
    \E t \in Threads :
        /\ pc[t] = "done"
        /\ req[t].ep = "press_ack"
        /\ req[t].user_name = EmptyStr
        /\ req[t].when = "post_flow"
        /\ req[t].incarcare = EnDash
        /\ resp[t].success = <<TRUE>>
        /\ GL_STORE # <<>>

Malformed(r) ==
    \/ ~WellFormed(r)
    \/ (r.ep \in {"greenlight_check", "set_greenlight"} /\ NoContext(r))

(* C20: a request with a non-POST method, an unparseable body or (for       *)
(* greenlight_check and set_greenlight) no user_name or cargo_id gets a 4xx *)
(* status and the store stays as it is; a page_ping for a page other than   *)
(* addload answers go=false and the store stays as it is.                   *)
C20_MalformedInputNoMutation ==
    [][\A t \in Threads :
          /\ (Answers(t) /\ Malformed(req'[t]))
             => (/\ resp'[t].status \in 400..499
                 /\ GL_STORE' = GL_STORE)
          /\ (/\ Answers(t)
              /\ WellFormed(req'[t])
              /\ req'[t].ep = "page_ping"
              /\ req'[t].page # "addload")
             => (/\ resp'[t].status = 200
                 /\ resp'[t].go = FALSE
                 /\ GL_STORE' = GL_STORE)]_vars

(* with a record in the store, a page_ping for an unknown page that names a *)
(* target was answered go=false                                             *)
C20_Witness ==
    \E t \in Threads :
        /\ pc[t] = "done"
        /\ GL_STORE # <<>>
        /\ req[t].ep = "page_ping"
        /\ req[t].page = "unknown"
        /\ req[t].cargo_id = Cargo7
        /\ WellFormed(req[t])
        /\ resp[t].go = FALSE

EpKey == _gl_key(U, BM142)

EpRecord(store) == Lookup(store, EpKey)

(* the record as the arrival on an empty store leaves it *)
EpArmed(store) ==
    /\ Len(store) = 1
    /\ DOMAIN EpRecord(store) =
          {"user", "cargo_id", "bm_id", "cargo_key", "armed", "pressed_once"}
    /\ EpRecord(store)["armed"] = TRUE
    /\ EpRecord(store)["pressed_once"] = FALSE

(* the record as the before_click report then leaves it *)
EpReady(store) ==
    /\ Len(store) = 1
    /\ get(EpRecord(store), "press_phases", <<>>) = <<"before_click">>
    /\ get(EpRecord(store), "press_incarcare_before", EmptyStr) = LoadedWord
    /\ truthy(EpRecord(store), "armed")
    /\ truthy(EpRecord(store), "ready_for_auto_finalize")
    /\ "press_success" \notin DOMAIN EpRecord(store)

(* the record as the after_click report then leaves it *)
EpPressed(store) ==
    /\ Len(store) = 1
    /\ get(EpRecord(store), "press_phases", <<>>) = <<"before_click", "after_click">>
    /\ get(EpRecord(store), "press_incarcare_before", EmptyStr) = LoadedWord
    /\ get(EpRecord(store), "press_incarcare_final", LoadedWord) = EmptyStr
    /\ truthy(EpRecord(store), "pressed_once")
    /\ ~truthy(EpRecord(store), "armed")
    /\ ~truthy(EpRecord(store), "ready_for_auto_finalize")
    /\ "press_success" \in DOMAIN EpRecord(store)

(* C17: from the empty store the arrival for BM-1-42 arms and answers       *)
(* go=true; before_click with "loaded" then opens the ready window and      *)
(* answers without verdict; after_click with "" then answers success=true   *)
(* and leaves the record pressed and not armed; the same after_click again  *)
(* answers the same success and message and writes nothing.                 *)
C17_EndToEndEpisode ==
    [][\A t \in Threads :
          Answers(t) =>
            LET r == req'[t]
                new == EpRecord(GL_STORE')
            IN /\ (r = EpArrive /\ GL_STORE = <<>>)
                  => (/\ resp'[t].go = TRUE
                      /\ resp'[t].cargo_key = BM142
                      /\ EpArmed(GL_STORE'))
               /\ (r = EpBefore /\ EpArmed(GL_STORE))
                  => (/\ resp'[t].success = None
                      /\ new["ready_for_auto_finalize"] = TRUE
                      /\ new["pending_since"] = <<"iso", now>>
                      /\ EpReady(GL_STORE'))
               /\ (r = EpAfter /\ EpReady(GL_STORE))
                  => (/\ resp'[t].success = <<TRUE>>
                      /\ resp'[t].message = "Publish Successful!"
                      /\ new["press_success"] = TRUE
                      /\ new["pressed_once"] = TRUE
                      /\ new["armed"] = FALSE
                      /\ EpPressed(GL_STORE'))
               /\ (r = EpAfter /\ EpPressed(GL_STORE))
                  => (/\ resp'[t].success = <<TRUE>>
                      /\ resp'[t].message = "Publish Successful!"
                      /\ GL_STORE' = GL_STORE
                      /\ new["pending_since"] = None)]_vars

(* the fourth report of the episode, the repeated after_click, was answered *)
C17_Witness ==
    \E t \in Threads :
        /\ pc[t] = "done"
        /\ req[t] = EpAfter
        /\ nreq = 4
        /\ EpPressed(GL_STORE)
        /\ d[t] = EpRecord(GL_STORE)
        /\ resp[t].success = <<TRUE>>

IsArrival(r) ==
    /\ WellFormed(r)
    /\ r.ep = "page_ping"
    /\ r.page = "addload"
    /\ Trimmed(r.cargo_id) # EmptyStr

(* C18: the go that a page_ping arrival returns is armed and not            *)
(* pressed_once of the key's record as the call leaves it.                  *)
C18_ArrivalGoReflectsRecord ==
    \A t \in Threads :
        (pc[t] = "done" /\ IsArrival(req[t]))
        => LET rec == Lookup(GL_STORE, ThreadKey(t))
           IN resp[t].go = (/\ get(rec, "armed", FALSE) = TRUE
                            /\ get(rec, "pressed_once", FALSE) = FALSE)

(* an arrival on a pressed key was answered go=false *)
C18_Witness ==
    \E t \in Threads :
        /\ pc[t] = "done"
        /\ IsArrival(req[t])
        /\ resp[t].go = FALSE
        /\ truthy(Lookup(GL_STORE, ThreadKey(t)), "pressed_once")

IdentityFields == {"user", "cargo_id", "bm_id", "cargo_key"}

IsSet(r) == WellFormed(r) /\ r.ep = "set_greenlight" /\ ~NoContext(r)

(* C19: set_greenlight with user and target sets armed = press and          *)
(* pressed_once = not press on the key's record whatever it held, overlays  *)
(* the identity fields, leaves every other field of that record and every   *)
(* other record as they were, and returns armed = press.                    *)
C19_ForceSetArm ==
    [][\A t \in Threads :
          (Answers(t) /\ IsSet(req'[t]))
          => LET r == req'[t]
                 k == AnswerKey(t)
                 cur == Lookup(GL_STORE, k)
                 new == Lookup(GL_STORE', k)
             IN /\ HasKey(GL_STORE', k)
                /\ new["armed"] = r.press
                /\ new["pressed_once"] = ~r.press
                /\ new["user"] = Trimmed(r.user_name)
                /\ new["cargo_id"] = Trimmed(r.cargo_id)
                /\ DOMAIN new = DOMAIN cur \cup IdentityFields \cup {"armed", "pressed_once"}
                /\ \A f \in DOMAIN cur \ (IdentityFields \cup {"armed", "pressed_once"}) :
                      new[f] = cur[f]
                /\ \A i \in 1..Len(GL_STORE) :
                      GL_STORE[i][1] # k => GL_STORE'[i] = GL_STORE[i]
                /\ Len(GL_STORE') = IF HasKey(GL_STORE, k) THEN Len(GL_STORE)
                                    ELSE Len(GL_STORE) + 1
                /\ resp'[t].armed = r.press]_vars

(* the override was applied to a record in its ready window, next to a      *)
(* second record                                                            *)
C19_Witness ==
    \E t \in Threads :
        /\ pc[t] = "done"
        /\ IsSet(req[t])
        /\ Len(GL_STORE) = 2
        /\ get(Lookup(GL_STORE, ThreadKey(t)), "pending_since", None) # None
        /\ Lookup(GL_STORE, ThreadKey(t))["armed"] = req[t].press

IsAck(r) == WellFormed(r) /\ r.ep = "press_ack" /\ ~NoContext(r)

IsFinalizeAck(r) == IsAck(r) /\ r.when \in {"after_click", "post_flow"}

(* C21: on a key that was finalized and then armed again by set_greenlight  *)
(* with press=true, the next after_click / post_flow report finalizes       *)
(* again: it answers by the load indicator it reports and leaves the record *)
(* with armed=false and pressed_once=true.                                  *)
C21_NewEpisodeOwnVerdict ==
    [][\A t \in Threads :
          LET r == req'[t]
              cur == Lookup(GL_STORE, AnswerKey(t))
              new == Lookup(GL_STORE', AnswerKey(t))
          IN (/\ Answers(t)
              /\ IsFinalizeAck(r)
              /\ "press_success" \in DOMAIN cur
              /\ truthy(cur, "armed")
              /\ ~truthy(cur, "pressed_once"))
             => (/\ resp'[t].success = <<Placeholder(r.incarcare)>>
                 /\ new["armed"] = FALSE
                 /\ new["pressed_once"] = TRUE)]_vars

(* C22: once an explicit after_click / post_flow report has stored          *)
(* press_success and press_message for a key, a later finalize attempt of   *)
(* the episode does not change them; in particular not the write of an      *)
(* auto-finalize (page_ping, page_state empty) whose recovery scan ran      *)
(* before the report was stored and whose write runs after it.              *)
C22_VerdictWriteOnce ==
    [][\A t \in Threads :
          LET cur == Lookup(GL_STORE, ThreadKey(t))
              new == Lookup(GL_STORE', ThreadKey(t))
          IN (/\ Completes(t)
              /\ Path(req[t]) = "pp_scan"
              /\ HGet(hist, ThreadKey(t)).verdict # None
              /\ "press_success" \in DOMAIN cur
              /\ "press_success" \notin DOMAIN d[t])
             => (/\ new["press_success"] = cur["press_success"]
                 /\ new["press_message"] = cur["press_message"])]_vars

(* C23: a before_click press_ack sets pending_since to the current time and *)
(* ready_for_auto_finalize to true, and a "before" numeric parameter or     *)
(* "before" load indicator the record already holds is kept when the        *)
(* report carries a different value.                                        *)
C23_BeforeClickFirstWriteWins ==
    [][\A t \in Threads :
          (Answers(t) /\ IsAck(req'[t]) /\ req'[t].when = "before_click")
          => LET cur == Lookup(GL_STORE, AnswerKey(t))
                 new == Lookup(GL_STORE', AnswerKey(t))
             IN /\ new["pending_since"] = isoformat(now)
                /\ new["ready_for_auto_finalize"] = TRUE
                /\ get(cur, "press_incarcare_before", EmptyStr) # EmptyStr
                      => new["press_incarcare_before"] = cur["press_incarcare_before"]
                /\ get(cur, "press_timpde_before", None) # None
                      => new["press_timpde_before"] = cur["press_timpde_before"]]_vars

(* the record after the finalize transition of the report r on the record cur *)
FinalizeTransition(r, cur, new) ==
    /\ new["armed"] = FALSE
    /\ new["pressed_once"] = TRUE
    /\ get(new, "pending_since", None) = None
    /\ new["ready_for_auto_finalize"] = FALSE
    /\ get(new, "press_timpde_final", None) =
          IF r.timp_de # None THEN r.timp_de ELSE get(cur, "press_timpde_before", None)

(* C24, as stated: the first finalize-phase press_ack for a key, one whose   *)
(* record lists no finalize phase yet, leaves the record with armed=false,  *)
(* pressed_once=true, pending_since null and ready_for_auto_finalize=false, *)
(* and stores as final numeric parameter the reported value, or the stored  *)
(* "before" value when the report carries none.                             *)
C24_FirstFinalizeAck ==
    [][\A t \in Threads :
          LET r == req'[t]
              cur == Lookup(GL_STORE, AnswerKey(t))
              new == Lookup(GL_STORE', AnswerKey(t))
              seen == \E ph \in FinalizePhases : InList(ph, get(cur, "press_phases", <<>>))
          IN (Answers(t) /\ IsFinalizeAck(r) /\ ~seen)
             => FinalizeTransition(r, cur, new)]_vars

(* C24, amended: a finalize-phase press_ack that finds press_success unset  *)
(* on the key's record leaves the record with armed=false,                  *)
(* pressed_once=true, pending_since null and ready_for_auto_finalize=false, *)
(* and stores as final numeric parameter the reported value, or the stored  *)
(* "before" value when the report carries none.                             *)
C24_FinalizeTransition ==
    [][\A t \in Threads :
          LET r == req'[t]
              cur == Lookup(GL_STORE, AnswerKey(t))
              new == Lookup(GL_STORE', AnswerKey(t))
          IN (Answers(t) /\ IsFinalizeAck(r) /\ "press_success" \notin DOMAIN cur)
             => FinalizeTransition(r, cur, new)]_vars

(* a finalize report without numeric parameter was answered on a record     *)
(* in its ready window, and the stored "before" value became the final one  *)
C24_Witness ==
    \E t \in Threads :
        LET rec == Lookup(GL_STORE, ThreadKey(t))
        IN /\ DoneWith(t, "ack")
           /\ IsFinalizeAck(req[t])
           /\ req[t].timp_de = None
           /\ HGet(hist, ThreadKey(t)).verdict # None
           /\ resp[t].success = <<FALSE>>
           /\ get(rec, "press_timpde_before", None) = <<5>>
           /\ get(rec, "press_timpde_final", None) = <<5>>
           /\ rec["armed"] = FALSE /\ rec["pressed_once"] = TRUE
           /\ get(rec, "pending_since", None) = None

IsGenericAck(r) ==
    IsAck(r) /\ r.when \notin {"prepared", "before_click"} \cup FinalizePhases

PhasesOf(rec) == get(rec, "press_phases", <<>>)

(* C25: a press_ack with a phase name other than prepared, before_click,    *)
(* after_click and post_flow leaves armed, pressed_once, pending_since,     *)
(* ready_for_auto_finalize, press_success and press_message of the record   *)
(* as they were and appends its phase name to press_phases only if it is    *)
(* not in the list; in every state every press_phases is duplicate-free,    *)
(* and a record's list only grows at its end until the record is replaced.  *)
C25_GenericPhaseNoTransition ==
    [][LET NoDuplicates(l) == \A i, j \in 1..Len(l) : l[i] = l[j] => i = j
           IsPrefix(l, m) == Len(l) <= Len(m) /\ \A i \in 1..Len(l) : l[i] = m[i]
       IN
       /\ \A t \in Threads :
            (Answers(t) /\ IsGenericAck(req'[t]))
            => LET r == req'[t]
                   cur == Lookup(GL_STORE, AnswerKey(t))
                   new == Lookup(GL_STORE', AnswerKey(t))
               IN /\ \A f \in {"armed", "pressed_once", "pending_since",
                               "ready_for_auto_finalize", "press_success",
                               "press_message"} :
                        /\ f \in DOMAIN new <=> f \in DOMAIN cur
                        /\ f \in DOMAIN cur => new[f] = cur[f]
                  /\ PhasesOf(new) =
                        IF r.when = "" \/ InList(r.when, PhasesOf(cur))
                        THEN PhasesOf(cur)
                        ELSE Append(PhasesOf(cur), r.when)
       /\ \A i \in 1..Len(GL_STORE') : NoDuplicates(PhasesOf(GL_STORE'[i][2]))
       /\ \A i \in 1..Len(GL_STORE) :
            LET new == Lookup(GL_STORE', GL_STORE[i][1])
            IN \/ IsPrefix(PhasesOf(GL_STORE[i][2]), PhasesOf(new))
               \/ "press_phases" \notin DOMAIN new]_vars

(* a generic phase was reported a second time on a record in its ready      *)
(* window (the first report left its numeric parameter): the list holds the *)
(* name once and the record is still ready                                  *)
C25_Witness ==
    \E t \in Threads :
        LET rec == Lookup(GL_STORE, ThreadKey(t))
        IN /\ DoneWith(t, "ack")
           /\ IsGenericAck(req[t])
           /\ req[t].when = "clicked"
           /\ req[t].timp_de = None
           /\ get(rec, "last_timp_de", None) = <<5>>
           /\ get(rec, "press_timpde_before", None) = <<3>>
           /\ PhasesOf(rec) = <<"before_click", "clicked">>
           /\ truthy(rec, "armed") /\ truthy(rec, "ready_for_auto_finalize")
           /\ get(rec, "pending_since", None) # None

(* C26: a page_ping for addload without a target answers go=false whatever  *)
(* the recovery scan and the finalize do; it changes the store only when    *)
(* user_name is non-empty, page_state is empty and the scan found a record  *)
(* in its ready window, and then it changes that one record and no other:   *)
(* no record is added and every other record stays as it was.               *)
C26_BarePingFrame ==
    [][\A t \in Threads :
          (/\ Answers(t) /\ WellFormed(req'[t])
           /\ req'[t].ep = "page_ping" /\ req'[t].page = "addload"
           /\ Trimmed(req'[t].cargo_id) = EmptyStr)
          => LET r == req'[t]
             IN /\ resp'[t].go = FALSE
                /\ GL_STORE' # GL_STORE
                   => /\ Trimmed(r.user_name) # EmptyStr
                      /\ r.page_state = "empty"
                      /\ Len(GL_STORE') = Len(GL_STORE)
                      /\ \E i \in 1..Len(GL_STORE) :
                            /\ GL_STORE[i][2] = d'[t]
                            /\ Candidate(i, Trimmed(r.user_name))
                            /\ \A j \in 1..Len(GL_STORE) :
                                  j # i => GL_STORE'[j] = GL_STORE[j]]_vars

(* C27: the store key user + "__" + target addresses one record per (user,  *)
(* target) pair: no two different pairs build the key of a stored record,   *)
(* and the target the recovery scan returns, the store key split at its     *)
(* first "__", together with the scanned user is the key of the record the  *)
(* scan found; also for a user or a target that contains "__". The pairs    *)
(* compared are those of the scanned stores and user a with the target      *)
(* b__BM-7.                                                                 *)
C27_KeyAddressesOneRecord ==
    LET KeyOwners == ScanOwners \cup {<<<<"a">>, <<"b", "_", "_">> \o BM7>>}
    IN
    ScanDone
    => /\ \A i \in 1..Len(GL_STORE) : \A p, q \in KeyOwners :
             (/\ _gl_key(p[1], p[2]) = GL_STORE[i][1]
              /\ _gl_key(q[1], q[2]) = GL_STORE[i][1]) => p = q
       /\ d[1] # EmptyDict
          => \E i \in 1..Len(GL_STORE) :
                /\ GL_STORE[i][2] = d[1]
                /\ GL_STORE[i][1] = _gl_key(req[1].user_name, ck[1])
====
